---- MODULE Spec2Model ----
(***************************************************************************)
(* Campaign fan-out and proof lifecycle of the QC dashboard.               *)
(*                                                                         *)
(* Timestamps are whole days counted from 2024-01-01 (day 0); the time of  *)
(* day plays no part in any rule modelled here.  Rows of the seeds and     *)
(* proofs tables are records keyed by their id; a deleted row leaves the   *)
(* domain of the table and its id is never used again (ids are UUIDs).     *)
(***************************************************************************)
EXTENDS Integers, Sequences, FiniteSets, TLC

(* ------------------------------ bounds -------------------------------- *)

\* seeds ever created
MaxSeeds == 1
\* recipients of one seed
MaxAddresses == 3
\* provider createPostcard calls ever made
MaxLobCalls == 3
\* days the clock may run past its start
MaxElapsed == 7
\* last day the cadence law is evaluated from
MaxFrom == 800
\* seeds in the table when the scheduled command is studied on its own
TickSeeds == 2

(* --------------------------- value domains ---------------------------- *)

Null == -1

Users == {"u1", "u2"}
Cadences == {"one_time", "weekly", "monthly"}
SeedStatuses == {"active", "paused"}
ProofStatuses ==
    {"created", "in_production", "mailed", "delivered", "awaiting_review", "completed"}

\* the recipients a seed form can carry: the first n of a fixed address book
AddressBook == <<"addr_a", "addr_b", "addr_c", "addr_d">>
AddressLists == {SubSeq(AddressBook, 1, n) : n \in {1, MaxAddresses}}

\* artwork references: a provider template id or a stored-artwork URL
Artworks == {"tmpl_front", "https://bucket.s3.amazonaws.com/front.jpg"}

(* ------------------------------ calendar ------------------------------ *)

EpochYear == 2024

IsLeapYear(y) == (y % 4 = 0 /\ y % 100 # 0) \/ y % 400 = 0

\* luxon daysInMonth: the month may overflow 12 and is folded into the year
DaysInMonth(year, month) ==
    LET modMonth == ((month - 1) % 12) + 1
        modYear == year + (month - modMonth) \div 12
    IN  IF modMonth = 2 THEN (IF IsLeapYear(modYear) THEN 29 ELSE 28)
        ELSE IF modMonth \in {4, 6, 9, 11} THEN 30 ELSE 31

DaysInYear(y) == IF IsLeapYear(y) THEN 366 ELSE 365

RECURSIVE DaysBeforeYear(_)
DaysBeforeYear(y) ==
    IF y <= EpochYear THEN 0 ELSE DaysBeforeYear(y - 1) + DaysInYear(y - 1)

RECURSIVE DaysBeforeMonth(_, _)
DaysBeforeMonth(y, m) ==
    IF m <= 1 THEN 0 ELSE DaysBeforeMonth(y, m - 1) + DaysInMonth(y, m - 1)

\* timestamp -> calendar fields (luxon tsToObj)
RECURSIVE YearOf(_, _)
YearOf(ts, y) == IF ts < DaysInYear(y) THEN y ELSE YearOf(ts - DaysInYear(y), y + 1)

RECURSIVE MonthOf(_, _, _)
MonthOf(rest, y, m) ==
    IF rest < DaysInMonth(y, m) THEN m ELSE MonthOf(rest - DaysInMonth(y, m), y, m + 1)

ToCalendar(ts) ==
    LET y == YearOf(ts, EpochYear)
        inYear == ts - DaysBeforeYear(y)
        m == MonthOf(inYear, y, 1)
    IN  [year |-> y, month |-> m, day |-> inYear - DaysBeforeMonth(y, m) + 1]

\* calendar fields -> timestamp (luxon objToLocalTS over Date.UTC): a month past
\* December and a day past the end of the month carry over
FromCalendar(year, month, day) ==
    LET modMonth == ((month - 1) % 12) + 1
        modYear == year + (month - modMonth) \div 12
    IN  DaysBeforeYear(modYear) + DaysBeforeMonth(modYear, modMonth) + day - 1

\* luxon DateTime.plus({months, weeks}) (adjustTime): the months are added to the
\* calendar month, the day is clamped to the length of the month reached, and
\* the weeks are then added as days
Plus(ts, months, weeks) ==
    LET c == ToCalendar(ts)
        month == c.month + months
        day == (IF c.day < DaysInMonth(c.year, month) THEN c.day
                ELSE DaysInMonth(c.year, month)) + weeks * 7
    IN  FromCalendar(c.year, month, day)

(* --------------------------- Seed.computeNextRun ---------------------- *)

\* a month taken for thirty days
computeNextRunThirtyDays(cadence, from) ==
    CASE cadence = "one_time" -> Null
      [] cadence = "weekly" -> Plus(from, 0, 1)
      [] cadence = "monthly" -> from + 30
      [] OTHER -> Null

computeNextRun(cadence, from) ==
    CASE cadence = "one_time" -> Null
      [] cadence = "weekly" -> Plus(from, 0, 1)
      [] cadence = "monthly" -> Plus(from, 1, 0)
      [] OTHER -> Null

(* ------------------------------- state -------------------------------- *)

VARIABLES
    now,          \* the wall clock (DateTime.utc() / DateTime.now())
    lobApiKey,    \* users.lob_api_key, "" when not configured
    seeds,        \* the seeds table: id -> row
    seedsCreated, \* seed ids handed out so far
    proofs,       \* the proofs table: id -> row
    lobCalls,     \* LobClient.createPostcard calls made so far
    runs,         \* the runSeed execution of the manual request and of the tick
    tickPc,       \* RunDueSeeds.run: "idle" or "running"
    tickDue,      \* the due seeds the tick has still to process
    tickNow,      \* the `now` the running tick selected its seeds with
    webhookResponse, \* the HTTP status the webhook handler answered last, 0 before any
    webhookEvent, \* the event the provider delivered last and may deliver again
    cnCadence,    \* cadence law: the seed's cadence
    cnFrom,       \* cadence law: the timestamp computeNextRun is given
    cnResult,     \* cadence law: <<what computeNextRun returned>>, <<>> before the call
    resize        \* resizeImageIfNeeded: its position, its locals and what it returned

tables == <<seeds, seedsCreated, proofs, lobCalls>>
tick == <<tickPc, tickDue, tickNow>>
cadenceLaw == <<cnCadence, cnFrom, cnResult>>
webhook == <<webhookResponse, webhookEvent>>
vars == <<now, lobApiKey, tables, runs, tick, webhook, cadenceLaw, resize>>

RunContexts == {"manual", "tick"}

\* resizeImageIfNeeded before a call
NoResize ==
    [pc |-> "idle", currentSize |-> 0, width |-> 0, height |-> 0, format |-> "",
     scale |-> 0, resizedWidth |-> 0, resizedHeight |-> 0, resizedSize |-> 0,
     attempts |-> 0, metadataReads |-> 0, written |-> FALSE, returned |-> "none"]
NoEvent == [type |-> "", id |-> Null, tracking |-> "none"]

\* the clock starts on 2024-01-31
ClockStart == FromCalendar(EpochYear, 1, 31)
ClockSteps == {7}

NoRun ==
    [pc |-> "idle", outcome |-> "none", seedId |-> Null, userId |-> "",
     cadence |-> "", front |-> "", back |-> "", addresses |-> <<>>, i |-> 0,
     createdProofs |-> <<>>, errors |-> <<>>]

\* the state after installation: two registered users, no key, empty tables
Init ==
    /\ now = ClockStart
    /\ lobApiKey = [u \in Users |-> ""]
    /\ seeds = <<>>
    /\ seedsCreated = 0
    /\ proofs = <<>>
    /\ lobCalls = 0
    /\ runs = [r \in RunContexts |-> NoRun]
    /\ tickPc = "idle"
    /\ tickDue = <<>>
    /\ tickNow = Null
    /\ webhookResponse = 0
    /\ webhookEvent = NoEvent
    /\ cnCadence = "one_time"
    /\ cnFrom = 0
    /\ cnResult = <<>>
    /\ resize = NoResize

(* ------------------------------ helpers ------------------------------- *)

\* table without row k
Without(table, k) == [x \in DOMAIN table \ {k} |-> table[x]]

\* a lookup by the row's id alone
FindAnyones(table, k, u) == k \in DOMAIN table

\* query().where(id).where('user_id', user.id).firstOrFail() finds the row
FindOwned(table, k, u) == k \in DOMAIN table /\ table[k].userId = u

\* S3Service.isS3Url
isS3Url(value) ==
    /\ value # ""
    /\ value \notin {"tmpl_front", "tmpl_back"}
    /\ value \in {"https://bucket.s3.amazonaws.com/front.jpg"}

\* attempts the runSeed executions in flight have still to make
Reserved ==
    LET left(r) == IF runs[r].pc = "loop" THEN Len(runs[r].addresses) - runs[r].i ELSE 0
    IN  left("manual") + left("tick")

\* the provider-call bound leaves room for a run over n recipients
LobBudget(n) == lobCalls + Reserved + n <= MaxLobCalls

(* --------------------------- SettingsController ----------------------- *)

\* update: only a non-blank key replaces the stored one
SettingsUpdate(u, key) ==
    /\ key # ""
    /\ lobApiKey[u] # key
    /\ lobApiKey' = [lobApiKey EXCEPT ![u] = key]
    /\ UNCHANGED <<now, tables, runs, tick, webhook, cadenceLaw, resize>>

(* ---------------------------- SeedsController ------------------------- *)

\* the cadence a form without one is stored with
FormCadence(cadence) == IF cadence = "absent" THEN "one_time" ELSE cadence

\* store: a new seed is active; a recurring one is due at once
NewSeed(u, name, front, cadence, addresses) ==
    [userId |-> u, name |-> name, front |-> front, back |-> "tmpl_back",
     cadence |-> FormCadence(cadence), toAddress |-> addresses, status |-> "active",
     lastRunAt |-> Null,
     nextRunAt |-> IF FormCadence(cadence) # "one_time" THEN now ELSE Null]

SeedsStore(u, name, front, cadence, addresses) ==
    /\ seedsCreated < MaxSeeds
    /\ seedsCreated' = seedsCreated + 1
    /\ seeds' = seeds @@ ((seedsCreated + 1) :> NewSeed(u, name, front, cadence, addresses))
    /\ UNCHANGED <<now, lobApiKey, proofs, lobCalls, runs, tick, webhook, cadenceLaw, resize>>

\* DateTime.fromISO of the form's datetime-local text, Null when it is not a date
fromISO(c) ==
    IF c.month \in 1..12 /\ c.day \in 1..DaysInMonth(c.year, c.month)
    THEN FromCalendar(c.year, c.month, c.day)
    ELSE Null

\* update: the next run is the form's date, cleared when the form leaves it
\* empty, and kept when the text is no date
EditedNextRunAt(seed, nextRunAt) ==
    IF nextRunAt.text = "empty" THEN Null
    ELSE IF fromISO(nextRunAt.date) # Null THEN fromISO(nextRunAt.date)
    ELSE seed.nextRunAt

EditedSeed(seed, name, cadence, status, nextRunAt, addresses) ==
    [seed EXCEPT !.name = name,
                 !.cadence = FormCadence(cadence),
                 !.toAddress = addresses,
                 !.status = IF status = "absent" THEN @ ELSE status,
                 !.nextRunAt = EditedNextRunAt(seed, nextRunAt)]

SeedsUpdate(u, s, name, cadence, status, nextRunAt, addresses) ==
    /\ FindOwned(seeds, s, u)
    /\ seeds' = [seeds EXCEPT ![s] = EditedSeed(@, name, cadence, status, nextRunAt, addresses)]
    /\ UNCHANGED <<now, lobApiKey, seedsCreated, proofs, lobCalls, runs, tick,
                   webhook, cadenceLaw, resize>>

\* what the edit form can carry as the next run
NextRunInputs ==
    {[text |-> "empty", date |-> ToCalendar(now)],
     [text |-> "date", date |-> ToCalendar(now)],
     [text |-> "date", date |-> [year |-> EpochYear, month |-> 2, day |-> 30]]}

\* destroy: the seed's proofs are deleted on request and orphaned otherwise
\* an orphaned proof that loses its provider id with its seed
OrphanedProofLosesResource(proof, seed) ==
    [proof EXCEPT !.seedId = Null, !.seedName = seed.name, !.resourceId = Null]

\* an orphaned proof that keeps no name of its seed
OrphanedProofWithoutName(proof, seed) == [proof EXCEPT !.seedId = Null]

OrphanedProof(proof, seed) == [proof EXCEPT !.seedId = Null, !.seedName = seed.name]

ProofsAfterSeedDestroy(u, s, deleteProofs) ==
    LET ofSeed == {p \in DOMAIN proofs : proofs[p].seedId = s}
    IN  IF deleteProofs
        THEN [p \in DOMAIN proofs \ ofSeed |-> proofs[p]]
        ELSE [p \in DOMAIN proofs |->
                IF p \in ofSeed /\ proofs[p].userId = u
                THEN OrphanedProof(proofs[p], seeds[s])
                ELSE IF p \in ofSeed THEN [proofs[p] EXCEPT !.seedId = Null]
                ELSE proofs[p]]

SeedsDestroy(u, s, deleteProofs) ==
    /\ FindOwned(seeds, s, u)
    /\ proofs' = ProofsAfterSeedDestroy(u, s, deleteProofs)
    /\ seeds' = Without(seeds, s)
    /\ UNCHANGED <<now, lobApiKey, seedsCreated, lobCalls, runs, tick, webhook, cadenceLaw, resize>>

(* ------------------------------ SeedService --------------------------- *)

\* runSeed up to its loop: the credential check, then seed.refresh(), which
\* throws when the row is gone; the seed object keeps what the refresh read
runSeedEnterFrom(s, u, row) ==
    [NoRun EXCEPT !.pc = "loop", !.outcome = "running", !.seedId = s, !.userId = u,
                  !.cadence = row.cadence, !.front = row.front, !.back = row.back,
                  !.addresses = row.toAddress]

\* the credential check left out
runSeedEnterUnchecked(s, u) ==
    IF s \notin DOMAIN seeds
    THEN [NoRun EXCEPT !.pc = "done", !.outcome = "refresh_failed", !.seedId = s]
    ELSE runSeedEnterFrom(s, u, seeds[s])

\* a run refused for a seed already run at this very time
runSeedEnterUnlessJustRun(s, u) ==
    IF s \in DOMAIN seeds /\ seeds[s].lastRunAt = now
    THEN [NoRun EXCEPT !.pc = "done", !.outcome = "already_run", !.seedId = s]
    ELSE IF lobApiKey[u] = ""
    THEN [NoRun EXCEPT !.pc = "done", !.outcome = "config_error", !.seedId = s]
    ELSE runSeedEnterUnchecked(s, u)

runSeedEnter(s, u) ==
    IF lobApiKey[u] = ""
    THEN [NoRun EXCEPT !.pc = "done", !.outcome = "config_error", !.seedId = s]
    ELSE IF s \notin DOMAIN seeds
    THEN [NoRun EXCEPT !.pc = "done", !.outcome = "refresh_failed", !.seedId = s]
    ELSE runSeedEnterFrom(s, u, seeds[s])

\* the row Proof.create inserts for the postcard the provider answered with
NewProof(run, resourceId) ==
    [userId |-> run.userId, seedId |-> run.seedId, seedName |-> "",
     resourceId |-> resourceId, status |-> "created", trackingNumber |-> "",
     deliveredAt |-> Null, qualityRating |-> Null, printerVendor |-> "", notes |-> "",
     liveProofUrl |-> "", frontThumbnailUrl |-> ""]

\* the index counted from one
ErrorRecordOneBased(run, i) ==
    [addressIndex |-> i + 1, address |-> run.addresses[i + 1]]

\* the record the catch block pushes for the address at index i
ErrorRecord(run, i) ==
    [addressIndex |-> i, address |-> run.addresses[i + 1]]

\* the run after the attempt for address i succeeded with proof p
AfterSuccess(run, p) ==
    [run EXCEPT !.createdProofs = Append(@, p), !.i = @ + 1]

\* the error swallowed: nothing is recorded for the address
AfterFailureSwallowed(run) == [run EXCEPT !.i = @ + 1]

\* the run after the attempt for address i threw
AfterFailure(run) ==
    [run EXCEPT !.errors = Append(@, ErrorRecord(run, run.i)), !.i = @ + 1]

\* one pass of the loop body: presign the stored artwork, call the provider,
\* insert the proof; whatever throws is caught and recorded, and the loop goes on
runSeedAttempt(r) ==
    LET run == runs[r]
    IN  /\ run.pc = "loop"
        /\ run.i < Len(run.addresses)
        /\ \/ \* S3Service.getPresignedUrl throws
              /\ isS3Url(run.front) \/ isS3Url(run.back)
              /\ runs' = [runs EXCEPT ![r] = AfterFailure(run)]
              /\ UNCHANGED <<proofs, lobCalls>>
           \/ \* LobClient.createPostcard throws
              /\ lobCalls' = lobCalls + 1
              /\ runs' = [runs EXCEPT ![r] = AfterFailure(run)]
              /\ UNCHANGED proofs
           \/ \* the postcard exists, Proof.create throws (it must when the
              \* seed row is gone: seed_id is a foreign key)
              /\ lobCalls' = lobCalls + 1
              /\ runs' = [runs EXCEPT ![r] = AfterFailure(run)]
              /\ UNCHANGED proofs
           \/ \* the postcard exists and its proof is inserted
              /\ run.seedId \in DOMAIN seeds
              /\ lobCalls' = lobCalls + 1
              /\ proofs' = proofs @@ ((lobCalls + 1) :> NewProof(run, lobCalls + 1))
              /\ runs' = [runs EXCEPT ![r] = AfterSuccess(run, lobCalls + 1)]
        /\ UNCHANGED <<now, lobApiKey, seeds, seedsCreated, tick, webhook, cadenceLaw, resize>>

\* a one_time seed left active
BookkeepingNoPause(seed, cadence, at) ==
    [seed EXCEPT !.lastRunAt = at, !.nextRunAt = computeNextRun(cadence, at)]

\* the next run counted from the date the seed was due, not from the run
BookkeepingFromTheDueDate(seed, cadence, at) ==
    [seed EXCEPT !.lastRunAt = at,
                 !.nextRunAt = computeNextRun(cadence, IF @ = Null THEN at ELSE @),
                 !.status = IF cadence = "one_time" THEN "paused" ELSE @]

\* the recurrence metadata the run writes after the loop
Bookkeeping(seed, cadence, at) ==
    [seed EXCEPT !.lastRunAt = at,
                 !.nextRunAt = computeNextRun(cadence, at),
                 !.status = IF cadence = "one_time" THEN "paused" ELSE @]

\* the run has returned its two lists to the caller, which reports them
Returned(run) ==
    [NoRun EXCEPT !.pc = "done", !.outcome = "returned", !.seedId = run.seedId]

\* a loop left after its first turn
LoopIsOverAfterOne(run) == run.i >= 1

\* the for loop's condition i < addresses.length no longer holds
LoopIsOver(run) == run.i = Len(run.addresses)

\* after the loop: the bookkeeping and seed.save(), an UPDATE by id that
\* touches no row when the seed was deleted meanwhile; then the result
runSeedFinish(r) ==
    LET run == runs[r]
    IN  /\ run.pc = "loop"
        /\ LoopIsOver(run)
        /\ seeds' = IF run.seedId \in DOMAIN seeds
                    THEN [seeds EXCEPT ![run.seedId] = Bookkeeping(@, run.cadence, now)]
                    ELSE seeds
        /\ runs' = [runs EXCEPT ![r] = Returned(run)]
        /\ UNCHANGED <<now, lobApiKey, seedsCreated, proofs, lobCalls, tick, webhook,
                       cadenceLaw, resize>>

\* SeedsController.run: the owner's seed is looked up, a user without a key is
\* sent to the settings page, and runSeed is called
SeedsRun(u, s) ==
    /\ runs["manual"].pc # "loop"
    /\ IF ~FindOwned(seeds, s, u)
       THEN runs' = [runs EXCEPT !["manual"] =
                [NoRun EXCEPT !.pc = "done", !.outcome = "not_found", !.seedId = s]]
       ELSE IF lobApiKey[u] = ""
       THEN runs' = [runs EXCEPT !["manual"] =
                [NoRun EXCEPT !.pc = "done", !.outcome = "settings", !.seedId = s]]
       ELSE /\ LobBudget(Len(seeds[s].toAddress))
            /\ runs' = [runs EXCEPT !["manual"] = runSeedEnter(s, u)]
    /\ UNCHANGED <<now, lobApiKey, tables, tick, webhook, cadenceLaw, resize>>

(* ------------------------------ RunDueSeeds --------------------------- *)

\* a query that forgets the status
DueSeedsOfAnyStatus(at) ==
    {s \in DOMAIN seeds : seeds[s].nextRunAt # Null /\ seeds[s].nextRunAt <= at}

\* the query of the tick
DueSeeds(at) ==
    {s \in DOMAIN seeds :
        /\ seeds[s].status = "active"
        /\ seeds[s].nextRunAt # Null
        /\ seeds[s].nextRunAt <= at}

\* the rows of a query come in no stated order
Orderings(S) ==
    {q \in [1..Cardinality(S) -> S] : \A a, b \in 1..Cardinality(S) : a # b => q[a] # q[b]}

\* run, up to the loop: nothing to do without due seeds
TickStart ==
    /\ tickPc = "idle"
    /\ runs["tick"].pc # "loop"
    /\ DueSeeds(now) # {}
    /\ \E q \in Orderings(DueSeeds(now)) :
          tickDue' = [k \in 1..Len(q) |-> [id |-> q[k], userId |-> seeds[q[k]].userId]]
    /\ tickPc' = "running"
    /\ tickNow' = now
    /\ runs' = [runs EXCEPT !["tick"] = NoRun]
    /\ UNCHANGED <<now, lobApiKey, tables, webhook, cadenceLaw, resize>>

\* runSeed called whether or not the owner has a key
TickDispatchUnchecked(seed) == runSeedEnter(seed.id, seed.userId)

\* the owner is loaded, and a seed whose owner has no key is skipped
TickDispatch(seed) ==
    IF lobApiKey[seed.userId] = ""
    THEN [NoRun EXCEPT !.pc = "done", !.outcome = "skipped", !.seedId = seed.id]
    ELSE runSeedEnter(seed.id, seed.userId)

\* a tick that ends when runSeed throws
TickRemainingUncaught(due, run) ==
    IF run.outcome \in {"refresh_failed", "config_error"} THEN <<>> ELSE Tail(due)

\* what runSeed throws is caught and logged inside the loop: the loop goes on
TickRemaining(due, run) == Tail(due)

\* the loop body up to runSeed's own loop
TickNextSeed ==
    /\ tickPc = "running"
    /\ runs["tick"].pc # "loop"
    /\ tickDue # <<>>
    /\ LET seed == Head(tickDue)
       IN  /\ (lobApiKey[seed.userId] # "" /\ seed.id \in DOMAIN seeds)
                => LobBudget(Len(seeds[seed.id].toAddress))
           /\ runs' = [runs EXCEPT !["tick"] = TickDispatch(seed)]
           /\ tickDue' = TickRemaining(tickDue, TickDispatch(seed))
    /\ UNCHANGED <<now, lobApiKey, tables, tickPc, tickNow, webhook, cadenceLaw, resize>>

\* the loop is over
TickFinish ==
    /\ tickPc = "running"
    /\ runs["tick"].pc # "loop"
    /\ tickDue = <<>>
    /\ tickPc' = "idle"
    /\ tickNow' = Null
    /\ runs' = [runs EXCEPT !["tick"] = NoRun]
    /\ UNCHANGED <<now, lobApiKey, tables, tickDue, webhook, cadenceLaw, resize>>

(* --------------------------- WebhooksController ----------------------- *)

\* Proof.findBy('resource_id', id): the matching rows
FindByResourceId(id) == {p \in DOMAIN proofs : proofs[p].resourceId = id}

\* String.endsWith on the event types the provider sends
endsWith(type, suffix) ==
    \/ suffix = ".mailed" /\ type = "postcard.mailed"
    \/ suffix = ".delivered" /\ type = "postcard.delivered"

\* a delivery honoured only for a proof reported mailed
WebhookApplyDeliveredAfterMailed(proof, type, tracking, at) ==
    IF endsWith(type, ".mailed")
    THEN [proof EXCEPT !.status = "mailed",
                       !.trackingNumber = IF tracking # "" THEN tracking ELSE @]
    ELSE IF endsWith(type, ".delivered") /\ proof.status = "mailed"
    THEN [proof EXCEPT !.status = "awaiting_review",
                       !.deliveredAt = at,
                       !.trackingNumber = IF tracking # "" THEN tracking ELSE @]
    ELSE proof

\* the tracking number overwritten by whatever the payload holds
WebhookApplyOverwritesTracking(proof, type, tracking, at) ==
    IF endsWith(type, ".mailed")
    THEN [proof EXCEPT !.status = "mailed", !.trackingNumber = tracking]
    ELSE IF endsWith(type, ".delivered")
    THEN [proof EXCEPT !.status = "awaiting_review",
                       !.deliveredAt = at,
                       !.trackingNumber = IF tracking # "" THEN tracking ELSE @]
    ELSE proof

\* a handler that also follows the provider's production events
WebhookApplyTracksProduction(proof, type, tracking, at) ==
    IF endsWith(type, ".mailed")
    THEN [proof EXCEPT !.status = "mailed",
                       !.trackingNumber = IF tracking # "" THEN tracking ELSE @]
    ELSE IF endsWith(type, ".delivered")
    THEN [proof EXCEPT !.status = "awaiting_review",
                       !.deliveredAt = at,
                       !.trackingNumber = IF tracking # "" THEN tracking ELSE @]
    ELSE IF type = "postcard.created"
    THEN [proof EXCEPT !.status = "in_production"]
    ELSE proof

\* the fields the handler assigns before proof.save()
WebhookApply(proof, type, tracking, at) ==
    IF endsWith(type, ".mailed")
    THEN [proof EXCEPT !.status = "mailed",
                       !.trackingNumber = IF tracking # "" THEN tracking ELSE @]
    ELSE IF endsWith(type, ".delivered")
    THEN [proof EXCEPT !.status = "awaiting_review",
                       !.deliveredAt = at,
                       !.trackingNumber = IF tracking # "" THEN tracking ELSE @]
    ELSE proof

\* an unknown resource answered with 404
WebhookStatusNotFound(type, id) ==
    IF id = Null THEN 204
    ELSE IF FindByResourceId(id) = {} THEN 404
    ELSE IF type = "" THEN 500
    ELSE 200

\* the status the handler answers with: 204 without a resource id or a
\* matching proof, 200 after the save, 500 when endsWith is called on a
\* missing type
WebhookStatus(type, id) ==
    IF id = Null \/ FindByResourceId(id) = {} THEN 204
    ELSE IF type = "" THEN 500
    ELSE 200

\* store: what the handler does with a request body
WebhooksStoreBody(type, id, tracking) ==
    /\ webhookResponse' = WebhookStatus(type, id)
    /\ proofs' = IF WebhookStatus(type, id) = 200
                 THEN LET p == CHOOSE x \in FindByResourceId(id) : TRUE
                      IN  [proofs EXCEPT ![p] = WebhookApply(@, type, tracking, now)]
                 ELSE proofs
    /\ UNCHANGED <<now, lobApiKey, seeds, seedsCreated, lobCalls, runs, tick, cadenceLaw, resize>>

\* store, for a request of any sender
WebhooksStore(type, id, tracking) ==
    /\ WebhooksStoreBody(type, id, tracking)
    /\ UNCHANGED webhookEvent

\* the provider delivers an event and keeps it for a retry
ProviderDeliver(type, id, tracking) ==
    /\ WebhooksStoreBody(type, id, tracking)
    /\ webhookEvent' = [type |-> type, id |-> id, tracking |-> tracking]

\* the provider delivers the event it delivered last once more
ProviderRetry ==
    /\ webhookEvent # NoEvent
    /\ WebhooksStoreBody(webhookEvent.type, webhookEvent.id, webhookEvent.tracking)
    /\ UNCHANGED webhookEvent

\* what a request body can carry: "" is a missing type or tracking number,
\* Null a missing data.id
EventTypes == {"postcard.mailed", "postcard.delivered", "postcard.created", ""}
TrackingNumbers == {"", "9400100000000000000001"}
ResourceIds == {Null} \cup 1..MaxLobCalls
Ratings == {Null, 5}
PrinterVendors == {"", "PrintCo"}
ReviewNotes == {"", "smudged corner"}

(* ---------------------------- ProofsController ------------------------ *)

\* a review that completes only a proof awaiting review
ReviewedProofAfterDelivery(proof, rating, printerVendor, notes) ==
    [proof EXCEPT !.qualityRating = rating, !.printerVendor = printerVendor,
                  !.notes = notes,
                  !.status = IF @ = "awaiting_review" THEN "completed" ELSE @]

\* update ("submit review"): `data.x || null` stores an absent or empty field as null
ReviewedProof(proof, rating, printerVendor, notes) ==
    [proof EXCEPT !.qualityRating = rating, !.printerVendor = printerVendor,
                  !.notes = notes, !.status = "completed"]

ProofsUpdate(u, p, rating, printerVendor, notes) ==
    /\ FindOwned(proofs, p, u)
    /\ proofs' = [proofs EXCEPT ![p] = ReviewedProof(@, rating, printerVendor, notes)]
    /\ UNCHANGED <<now, lobApiKey, seeds, seedsCreated, lobCalls, runs, tick,
                   webhook, cadenceLaw, resize>>

\* a completed proof left as it is
StatusSetUnlessCompleted(proof, status) ==
    IF proof.status = "completed" THEN proof ELSE [proof EXCEPT !.status = status]

\* the assignment of updateStatus
StatusSet(proof, status) == [proof EXCEPT !.status = status]

\* updateStatus ("set status")
ProofsUpdateStatus(u, p, status) ==
    /\ FindOwned(proofs, p, u)
    /\ proofs' = [proofs EXCEPT ![p] = StatusSet(@, status)]
    /\ UNCHANGED <<now, lobApiKey, seeds, seedsCreated, lobCalls, runs, tick,
                   webhook, cadenceLaw, resize>>

\* what the upload request can meet: no file in the request, a file that fails
\* validation, the ingestion service failing, the service listing no scan url,
\* and the service listing the url of the scan
UploadOutcomes == {"no_file", "invalid_file", "ingestion_failed", "no_scan_url", "stored"}
ScanUrls == {"https://scans.example/1.jpg"}

\* an upload that also marks the proof as delivered
UploadedProofMarksReview(proof, outcome, url) ==
    IF outcome = "stored"
    THEN [proof EXCEPT !.liveProofUrl = url, !.status = "awaiting_review"]
    ELSE proof

\* every path but the last redirects without touching the row
UploadedProof(proof, outcome, url) ==
    IF outcome = "stored" THEN [proof EXCEPT !.liveProofUrl = url] ELSE proof

\* uploadLiveProof ("upload physical-copy photo")
ProofsUploadLiveProof(u, p, outcome, url) ==
    /\ FindOwned(proofs, p, u)
    /\ proofs' = [proofs EXCEPT ![p] = UploadedProof(@, outcome, url)]
    /\ UNCHANGED <<now, lobApiKey, seeds, seedsCreated, lobCalls, runs, tick,
                   webhook, cadenceLaw, resize>>

\* index: the thumbnail of a proof that has none is fetched from the provider
\* and saved when the provider has one
ThumbnailUrls == {"", "https://lob.example/thumb_large.png"}

BackfilledProof(proof, thumbnail) ==
    IF proof.frontThumbnailUrl = "" /\ proof.resourceId # Null /\ thumbnail # ""
    THEN [proof EXCEPT !.frontThumbnailUrl = thumbnail]
    ELSE proof

ProofsIndex(u, thumbnails) ==
    /\ proofs' = [p \in DOMAIN proofs |->
                    IF proofs[p].userId = u THEN BackfilledProof(proofs[p], thumbnails[p])
                    ELSE proofs[p]]
    /\ UNCHANGED <<now, lobApiKey, seeds, seedsCreated, lobCalls, runs, tick,
                   webhook, cadenceLaw, resize>>

\* destroy: the owner deletes the proof
ProofsDestroy(u, p) ==
    /\ FindOwned(proofs, p, u)
    /\ proofs' = Without(proofs, p)
    /\ UNCHANGED <<now, lobApiKey, seeds, seedsCreated, lobCalls, runs, tick,
                   webhook, cadenceLaw, resize>>

(* --------------------------- ImageResizeService ----------------------- *)

maxAttempts == 10
minDimension == 800
\* the ceiling uploadLiveProof passes, which is also the default
maxSizeBytes == 4 * 1024 * 1024

\* what the file system and the image library can report
FileSizes == {maxSizeBytes - 1, maxSizeBytes, maxSizeBytes + 1, 6 * 1024 * 1024}
EncodedSizes == {maxSizeBytes, maxSizeBytes + 1}
ImageWidths == {0, 700, 1000, 6000}
ImageHeights == {0, 850, 4000}
ImageFormats == {"jpeg", "png", "heif", ""}

\* decimal digits of n, the units first
RECURSIVE Digits(_)
Digits(n) == IF n < 10 THEN <<n>> ELSE <<n % 10>> \o Digits(n \div 10)

RECURSIVE FromDigits(_)
FromDigits(ds) == IF ds = <<>> THEN 0 ELSE Head(ds) + 10 * FromDigits(Tail(ds))

RECURSIVE TimesNine(_, _)
TimesNine(ds, carry) ==
    IF ds = <<>> THEN (IF carry = 0 THEN <<>> ELSE <<carry>>)
    ELSE LET v == 9 * Head(ds) + carry
         IN  <<v % 10>> \o TimesNine(Tail(ds), v \div 10)

RECURSIVE TimesNineTo(_, _)
TimesNineTo(ds, k) == IF k = 0 THEN ds ELSE TimesNineTo(TimesNine(ds, 0), k - 1)

\* Math.round(n * scale) for scale = 0.9^k: n * 9^k / 10^k, halves rounded up
Scaled(n, k) ==
    LET ds == TimesNineTo(Digits(n), k)
        whole == IF Len(ds) > k THEN FromDigits(SubSeq(ds, k + 1, Len(ds))) ELSE 0
        half == IF k >= 1 /\ Len(ds) >= k /\ ds[k] >= 5 THEN 1 ELSE 0
    IN  whole + half

\* Math.round(num / den)
Round(num, den) == (2 * num + den) \div (2 * den)

Max(a, b) == IF a >= b THEN a ELSE b

\* the longer side set to minDimension, the other by the aspect ratio
AtMinDimension(width, height) ==
    IF width > height
    THEN [resizedWidth |-> minDimension, resizedHeight |-> Round(minDimension * height, width)]
    ELSE [resizedWidth |-> Round(minDimension * width, height), resizedHeight |-> minDimension]

\* the dimensions of the first attempt
InitialTarget(width, height) ==
    IF Scaled(width, 1) < minDimension /\ Scaled(height, 1) < minDimension
    THEN AtMinDimension(width, height)
    ELSE [resizedWidth |-> Scaled(width, 1), resizedHeight |-> Scaled(height, 1)]

\* the dimensions after a failed attempt, scale being 0.9^k
NextTarget(width, height, k) ==
    LET resizedWidth == Max(Scaled(width, k), minDimension)
        resizedHeight == Max(Scaled(height, k), minDimension)
    IN  IF resizedWidth < minDimension \/ resizedHeight < minDimension
        THEN AtMinDimension(width, height)
        ELSE [resizedWidth |-> resizedWidth, resizedHeight |-> resizedHeight]

\* a catch block that hands out the file already written
ReturnsWhatWasWritten(r) ==
    [r EXCEPT !.pc = "returned",
              !.returned = IF r.written THEN "resizedPath" ELSE "filePath"]

\* the catch block, and the returns of the input path
ReturnsInput(r) == [r EXCEPT !.pc = "returned", !.returned = "filePath"]

\* a loop that looks at the size only
LoopContinuesWhileOver(r) == r.resizedSize > maxSizeBytes

\* the condition of the while loop
LoopContinues(r) == r.resizedSize > maxSizeBytes /\ r.attempts < maxAttempts

\* a size check that lets only files strictly under the ceiling through
NeedsResizeAtCeiling(currentSize) == currentSize >= maxSizeBytes

\* the negation of the size check
NeedsResize(currentSize) == ~(currentSize <= maxSizeBytes)

\* the call, up to the size check
ResizeCall(currentSize, width, height, format, threw) ==
    /\ resize.pc \in {"idle", "returned"}
    /\ LET r == [NoResize EXCEPT !.currentSize = currentSize, !.width = width,
                                 !.height = height, !.format = format]
       IN  resize' = IF threw \/ ~NeedsResize(currentSize)
                     THEN ReturnsInput(r)
                     ELSE [r EXCEPT !.pc = "metadata"]
    /\ UNCHANGED <<now, lobApiKey, tables, runs, tick, webhook, cadenceLaw>>

\* the metadata read, the checks on it and the first target
ResizeMetadata(threw) ==
    /\ resize.pc = "metadata"
    /\ LET r == [resize EXCEPT !.metadataReads = @ + 1]
           target == InitialTarget(r.width, r.height)
       IN  resize' =
             IF threw \/ r.width = 0 \/ r.height = 0 \/ r.format \notin {"jpeg", "jpg", "png"}
             THEN ReturnsInput(r)
             ELSE [r EXCEPT !.pc = "loop", !.scale = 1,
                            !.resizedWidth = target.resizedWidth,
                            !.resizedHeight = target.resizedHeight,
                            !.resizedSize = maxSizeBytes + 1, !.attempts = 0]
    /\ UNCHANGED <<now, lobApiKey, tables, runs, tick, webhook, cadenceLaw>>

\* one turn of the loop: the encode and the stat of its output, either of
\* which may throw, and the next target when the output is over the ceiling
ResizeAttempt(size, encodeThrew, statThrew) ==
    /\ resize.pc = "loop"
    /\ LoopContinues(resize)
    /\ LET r == [resize EXCEPT !.attempts = @ + 1]
           target == NextTarget(r.width, r.height, r.scale + 1)
       IN  resize' =
             IF encodeThrew THEN ReturnsInput(r)
             ELSE IF statThrew THEN ReturnsInput([r EXCEPT !.written = TRUE])
             ELSE IF size > maxSizeBytes
             THEN [r EXCEPT !.written = TRUE, !.resizedSize = size, !.scale = @ + 1,
                            !.resizedWidth = target.resizedWidth,
                            !.resizedHeight = target.resizedHeight]
             ELSE [r EXCEPT !.written = TRUE, !.resizedSize = size]
    /\ UNCHANGED <<now, lobApiKey, tables, runs, tick, webhook, cadenceLaw>>

\* after the loop: the final stat, which may throw, and the return
ResizeFinish(threw) ==
    /\ resize.pc = "loop"
    /\ ~LoopContinues(resize)
    /\ resize' = IF threw THEN ReturnsInput(resize)
                  ELSE [resize EXCEPT !.pc = "returned", !.returned = "resizedPath"]
    /\ UNCHANGED <<now, lobApiKey, tables, runs, tick, webhook, cadenceLaw>>

(* -------------------------------- clock ------------------------------- *)

AdvanceClock(d) ==
    /\ now + d <= ClockStart + MaxElapsed
    /\ now' = now + d
    /\ UNCHANGED <<lobApiKey, tables, runs, tick, webhook, cadenceLaw, resize>>

(* ---------------------------- specifications -------------------------- *)


\* the dispatcher: seeds, manual runs, the scheduled tick and the clock
Next ==
    \/ \E u \in Users : SettingsUpdate(u, "live_key")
    \/ \E u \in Users, front \in Artworks,
          cadence \in Cadences \cup {"absent"}, addresses \in AddressLists :
          SeedsStore(u, "Spring", front, cadence, addresses)
    \/ \E u \in Users, s \in 1..MaxSeeds, deleteProofs \in BOOLEAN :
          SeedsDestroy(u, s, deleteProofs)
    \/ \E u \in Users, s \in 1..MaxSeeds : SeedsRun(u, s)
    \/ \E r \in RunContexts : runSeedAttempt(r)
    \/ \E r \in RunContexts : runSeedFinish(r)
    \/ TickStart
    \/ TickNextSeed
    \/ TickFinish
    \/ \E d \in ClockSteps : AdvanceClock(d)

Spec == Init /\ [][Next]_vars

\* the schedule of one owner's seeds with one recipient and template artwork:
\* creation, edits, manual runs, the scheduled tick and the clock
NextSchedule ==
    \/ \E u \in {"u1"} : SettingsUpdate(u, "live_key")
    \/ \E u \in {"u1"}, cadence \in Cadences \cup {"absent"} :
          SeedsStore(u, "Spring", "tmpl_front", cadence, <<"addr_a">>)
    \/ \E u \in {"u1"}, s \in 1..MaxSeeds, cadence \in Cadences \cup {"absent"},
          status \in SeedStatuses \cup {"absent"}, nextRunAt \in NextRunInputs :
          SeedsUpdate(u, s, "Spring", cadence, status, nextRunAt, <<"addr_a">>)
    \/ \E u \in {"u1"}, s \in 1..MaxSeeds : SeedsRun(u, s)
    \/ \E r \in RunContexts : runSeedAttempt(r)
    \/ \E r \in RunContexts : runSeedFinish(r)
    \/ TickStart
    \/ TickNextSeed
    \/ TickFinish
    \/ \E d \in ClockSteps : AdvanceClock(d)

SpecSchedule == Init /\ [][NextSchedule]_vars

\* the proof lifecycle: provider events and the owner's actions on the two
\* proofs of a run over three recipients whose second postcard the provider
\* refused
LifecycleRun ==
    [runSeedEnterFrom(1, "u1", NewSeed("u1", "Spring", "tmpl_front", "one_time",
                                       SubSeq(AddressBook, 1, 3)))
        EXCEPT !.i = 3]

InitLifecycle ==
    /\ now = ClockStart
    /\ lobApiKey = [u \in Users |-> IF u = "u1" THEN "live_key" ELSE ""]
    /\ seeds = (1 :> Bookkeeping(NewSeed("u1", "Spring", "tmpl_front", "one_time",
                                         SubSeq(AddressBook, 1, 3)),
                                 "one_time", ClockStart))
    /\ seedsCreated = 1
    /\ proofs = (1 :> NewProof(LifecycleRun, 1)) @@ (3 :> NewProof(LifecycleRun, 3))
    /\ lobCalls = 3
    /\ runs = [r \in RunContexts |-> IF r = "manual" THEN Returned(LifecycleRun) ELSE NoRun]
    /\ tickPc = "idle"
    /\ tickDue = <<>>
    /\ tickNow = Null
    /\ webhookResponse = 0
    /\ webhookEvent = NoEvent
    /\ cnCadence = "one_time"
    /\ cnFrom = 0
    /\ cnResult = <<>>
    /\ resize = NoResize

NextLifecycle ==
    \/ \E type \in EventTypes, id \in ResourceIds, tracking \in TrackingNumbers :
          WebhooksStore(type, id, tracking)
    \/ \E u \in Users, p \in 1..MaxLobCalls, rating \in Ratings :
          ProofsUpdate(u, p, rating, "", "")
    \/ \E u \in Users, p \in 1..MaxLobCalls, status \in ProofStatuses :
          ProofsUpdateStatus(u, p, status)

SpecLifecycle == InitLifecycle /\ [][NextLifecycle]_vars

\* the owner's actions on proofs, from the same state
NextReview ==
    \/ \E u \in Users, p \in 1..MaxLobCalls, rating \in Ratings,
          printerVendor \in PrinterVendors, notes \in ReviewNotes :
          ProofsUpdate(u, p, rating, printerVendor, notes)
    \/ \E u \in Users, p \in 1..MaxLobCalls, status \in ProofStatuses :
          ProofsUpdateStatus(u, p, status)
    \/ \E u \in Users, p \in 1..MaxLobCalls, outcome \in UploadOutcomes, url \in ScanUrls :
          ProofsUploadLiveProof(u, p, outcome, url)

SpecReview == InitLifecycle /\ [][NextReview]_vars

\* the provider delivering events, and delivering them again later
NextRetry ==
    \/ \E type \in EventTypes, id \in ResourceIds, tracking \in TrackingNumbers :
          ProviderDeliver(type, id, tracking)
    \/ ProviderRetry
    \/ \E d \in ClockSteps : AdvanceClock(d)

SpecRetry == InitLifecycle /\ [][NextRetry]_vars

\* the life of proofs from their creation on: one user, one seed with one
\* recipient, run by hand; the requests on proofs are made for the first proof
NextIdentity ==
    \/ SettingsUpdate("u1", "live_key")
    \/ SeedsStore("u1", "Spring", "tmpl_front", "one_time", <<"addr_a">>)
    \/ \E s \in 1..MaxSeeds : SeedsRun("u1", s)
    \/ runSeedAttempt("manual")
    \/ runSeedFinish("manual")
    \/ \E s \in 1..MaxSeeds, deleteProofs \in BOOLEAN : SeedsDestroy("u1", s, deleteProofs)
    \/ \E type \in {"postcard.mailed", "postcard.delivered"}, tracking \in TrackingNumbers :
          WebhooksStore(type, 1, tracking)
    \/ ProofsUpdate("u1", 1, 5, "PrintCo", "")
    \/ ProofsUpdateStatus("u1", 1, "in_production")
    \/ \E url \in ScanUrls : ProofsUploadLiveProof("u1", 1, "stored", url)
    \/ \E thumbnails \in [1..MaxLobCalls -> ThumbnailUrls] : ProofsIndex("u1", thumbnails)
    \/ ProofsDestroy("u1", 1)

SpecIdentity == Init /\ [][NextIdentity]_vars

\* the requests of two users on each other's rows: either may hold a key and
\* create the one seed, run it, edit it or delete it, and review, set the
\* status of, upload a photo for or delete any proof
NextOwnership ==
    \/ \E u \in Users : SettingsUpdate(u, "live_key")
    \/ \E u \in Users : SeedsStore(u, "Spring", "tmpl_front", "weekly", <<"addr_a">>)
    \/ \E u \in Users, s \in 1..MaxSeeds, status \in SeedStatuses :
          SeedsUpdate(u, s, "Summer", "monthly", status,
                      [text |-> "empty", date |-> ToCalendar(now)], <<"addr_a">>)
    \/ \E u \in Users, s \in 1..MaxSeeds, deleteProofs \in BOOLEAN :
          SeedsDestroy(u, s, deleteProofs)
    \/ \E u \in Users, s \in 1..MaxSeeds : SeedsRun(u, s)
    \/ runSeedAttempt("manual")
    \/ runSeedFinish("manual")
    \/ \E u \in Users, p \in 1..MaxLobCalls : ProofsUpdate(u, p, 5, "PrintCo", "")
    \/ \E u \in Users, p \in 1..MaxLobCalls : ProofsUpdateStatus(u, p, "delivered")
    \/ \E u \in Users, p \in 1..MaxLobCalls, url \in ScanUrls :
          ProofsUploadLiveProof(u, p, "stored", url)
    \/ \E u \in Users, p \in 1..MaxLobCalls : ProofsDestroy(u, p)

SpecOwnership == Init /\ [][NextOwnership]_vars

\* the scheduled command over seeds in every condition the requests can leave
\* them in: of either user, active or paused, with no next run, one that is
\* overdue, one that is due now and one that is a week away
TickSeedRows ==
    {[NewSeed(u, "Spring", "tmpl_front", cadence, <<"addr_a">>)
        EXCEPT !.status = status, !.nextRunAt = nextRunAt] :
        u \in Users, cadence \in {"one_time", "weekly"}, status \in SeedStatuses,
        nextRunAt \in {Null, ClockStart - 7, ClockStart, ClockStart + 7}}

InitTick ==
    /\ now = ClockStart
    /\ lobApiKey = [u \in Users |-> IF u = "u1" THEN "live_key" ELSE ""]
    /\ seeds \in [1..TickSeeds -> TickSeedRows]
    /\ seedsCreated = TickSeeds
    /\ proofs = <<>>
    /\ lobCalls = 0
    /\ runs = [r \in RunContexts |-> NoRun]
    /\ tickPc = "idle"
    /\ tickDue = <<>>
    /\ tickNow = Null
    /\ webhookResponse = 0
    /\ webhookEvent = NoEvent
    /\ cnCadence = "one_time"
    /\ cnFrom = 0
    /\ cnResult = <<>>
    /\ resize = NoResize

NextTick ==
    \/ SettingsUpdate("u2", "live_key")
    \/ \E u \in Users, s \in 1..TickSeeds : SeedsDestroy(u, s, FALSE)
    \/ TickStart
    \/ TickNextSeed
    \/ runSeedAttempt("tick")
    \/ runSeedFinish("tick")
    \/ TickFinish

SpecTick == InitTick /\ [][NextTick]_vars

\* the resizer on its own
NextResize ==
    \/ \E currentSize \in FileSizes, width \in ImageWidths, height \in ImageHeights,
          format \in ImageFormats, threw \in BOOLEAN :
          ResizeCall(currentSize, width, height, format, threw)
    \/ \E threw \in BOOLEAN : ResizeMetadata(threw)
    \/ \E size \in EncodedSizes, encodeThrew \in BOOLEAN, statThrew \in BOOLEAN :
          ResizeAttempt(size, encodeThrew, statThrew)
    \/ \E threw \in BOOLEAN : ResizeFinish(threw)

SpecResize == Init /\ [][NextResize]_vars

\* the awaits of the function return
SpecResizeFair ==
    /\ Init
    /\ [][NextResize]_vars
    /\ WF_vars(\E threw \in BOOLEAN : ResizeMetadata(threw))
    /\ WF_vars(\E size \in EncodedSizes, encodeThrew \in BOOLEAN, statThrew \in BOOLEAN :
                  ResizeAttempt(size, encodeThrew, statThrew))
    /\ WF_vars(\E threw \in BOOLEAN : ResizeFinish(threw))

\* ticks one after the other as the days pass, and the owner's manual runs,
\* over seeds of every cadence that are due, overdue or without a next run
RecurrenceSeedRows ==
    {[NewSeed("u1", "Spring", "tmpl_front", cadence, <<"addr_a">>)
        EXCEPT !.status = status, !.nextRunAt = nextRunAt] :
        cadence \in Cadences, status \in SeedStatuses,
        nextRunAt \in {Null, ClockStart - 7, ClockStart}}

InitRecurrence ==
    /\ now = ClockStart
    /\ lobApiKey = [u \in Users |-> IF u = "u1" THEN "live_key" ELSE ""]
    /\ seeds \in [1..TickSeeds -> RecurrenceSeedRows]
    /\ seedsCreated = TickSeeds
    /\ proofs = <<>>
    /\ lobCalls = 0
    /\ runs = [r \in RunContexts |-> NoRun]
    /\ tickPc = "idle"
    /\ tickDue = <<>>
    /\ tickNow = Null
    /\ webhookResponse = 0
    /\ webhookEvent = NoEvent
    /\ cnCadence = "one_time"
    /\ cnFrom = 0
    /\ cnResult = <<>>
    /\ resize = NoResize

NextRecurrence ==
    \/ TickStart
    \/ TickNextSeed
    \/ TickFinish
    \/ \E s \in 1..TickSeeds : SeedsRun("u1", s)
    \/ \E r \in RunContexts : runSeedAttempt(r)
    \/ \E r \in RunContexts : runSeedFinish(r)
    \/ \E d \in ClockSteps : AdvanceClock(d)

SpecRecurrence == InitRecurrence /\ [][NextRecurrence]_vars

\* the command runs its awaits one after the other and each of them returns
SpecTickFair ==
    /\ InitTick
    /\ [][NextTick]_vars
    /\ WF_vars(TickNextSeed)
    /\ WF_vars(runSeedAttempt("tick"))
    /\ WF_vars(runSeedFinish("tick"))
    /\ WF_vars(TickFinish)

\* the cadence law: computeNextRun applied to a seed of any cadence at any day
InitCadence ==
    /\ now = ClockStart
    /\ lobApiKey = [u \in Users |-> ""]
    /\ seeds = <<>>
    /\ seedsCreated = 0
    /\ proofs = <<>>
    /\ lobCalls = 0
    /\ runs = [r \in RunContexts |-> NoRun]
    /\ tickPc = "idle"
    /\ tickDue = <<>>
    /\ tickNow = Null
    /\ webhookResponse = 0
    /\ webhookEvent = NoEvent
    /\ cnCadence \in Cadences
    /\ cnFrom \in 0..MaxFrom
    /\ cnResult = <<>>
    /\ resize = NoResize

CallComputeNextRun ==
    /\ cnResult = <<>>
    /\ cnResult' = <<computeNextRun(cnCadence, cnFrom)>>
    /\ UNCHANGED <<now, lobApiKey, tables, runs, tick, webhook, cnCadence, cnFrom, resize>>

NextCadence == CallComputeNextRun

SpecCadence == InitCadence /\ [][NextCadence]_vars

(* ------------------------------- claims ------------------------------- *)

\* a step of the loop body of run r, and the step that ends run r's runSeed
AttemptStep(r) == runs[r].pc = "loop" /\ runs'[r].pc = "loop" /\ runs'[r] # runs[r]
FinishStep(r) == runs[r].pc = "loop" /\ runs'[r].pc = "done"
EnterStep(r) == runs[r].pc # "loop" /\ runs'[r].pc = "loop"

\* C1: every attempt of runSeed either inserts exactly one Proof row, in status
\* 'created', and appends it to the proofs it returns, or inserts nothing and
\* appends exactly one error record; so a run over N addresses of which K
\* attempts failed returns N-K proofs and K errors and has inserted N-K rows,
\* which are all there, in status 'created', when the run returns (unless the
\* owner deleted the seed and its proofs meanwhile).
C1_RunSeedAccountsForEveryAddress ==
    [][\A r \in RunContexts :
        LET run == runs[r]
            after == runs'[r]
            inserted == DOMAIN proofs' \ DOMAIN proofs
        IN  /\ AttemptStep(r) =>
                /\ \A p \in DOMAIN proofs : p \in DOMAIN proofs' /\ proofs'[p] = proofs[p]
                /\ \/ /\ after.createdProofs # run.createdProofs
                      /\ after.errors = run.errors
                      /\ \E p \in inserted :
                            /\ inserted = {p}
                            /\ after.createdProofs = Append(run.createdProofs, p)
                            /\ proofs'[p].status = "created"
                   \/ /\ Len(after.errors) = Len(run.errors) + 1
                      /\ after.createdProofs = run.createdProofs
                      /\ inserted = {}
            /\ FinishStep(r) =>
                /\ Len(run.createdProofs) + Len(run.errors) = Len(run.addresses)
                /\ proofs' = proofs
                /\ run.seedId \in DOMAIN seeds =>
                      /\ \A k \in 1..Len(run.createdProofs) :
                            /\ run.createdProofs[k] \in DOMAIN proofs
                            /\ proofs[run.createdProofs[k]].status = "created"
                            /\ proofs[run.createdProofs[k]].seedId = run.seedId
                      /\ Cardinality({run.createdProofs[k] : k \in 1..Len(run.createdProofs)})
                            = Len(run.addresses) - Len(run.errors)
    ]_vars

\* a run over three addresses is about to return one proof and two errors
C1_Witness ==
    \E r \in RunContexts :
        /\ runs[r].pc = "loop"
        /\ Len(runs[r].addresses) = 3
        /\ runs[r].i = 3
        /\ Len(runs[r].errors) = 2
        /\ Len(runs[r].createdProofs) = 1
        /\ runs[r].createdProofs[1] \in DOMAIN proofs
        /\ proofs[runs[r].createdProofs[1]].status = "created"

\* C2: runSeed starts at index 0, every attempt (failed or not) moves on to the
\* next index, a failure is recorded with the index and the address it was
\* made for, the next address can be attempted after a failure, and the run
\* returns only after the last address was attempted.
C2_FailureDoesNotStopTheBatch ==
    [][\A r \in RunContexts :
        LET run == runs[r]
            after == runs'[r]
        IN  /\ EnterStep(r) =>
                after.i = 0 /\ after.errors = <<>> /\ after.createdProofs = <<>>
            /\ AttemptStep(r) =>
                /\ run.i < Len(run.addresses)
                /\ after.i = run.i + 1
                /\ after.addresses = run.addresses
                /\ after.errors # run.errors =>
                      after.errors = Append(run.errors,
                          [addressIndex |-> run.i, address |-> run.addresses[run.i + 1]])
            /\ (run.pc = "loop" /\ run.errors # <<>> /\ run.i < Len(run.addresses)) =>
                ENABLED runSeedAttempt(r)
            /\ FinishStep(r) => run.i = Len(run.addresses)
    ]_vars

\* three addresses, the provider failed on index 1 only: 2 proofs, 1 error
C2_Witness ==
    \E r \in RunContexts :
        /\ runs[r].pc = "loop"
        /\ Len(runs[r].addresses) = 3
        /\ runs[r].i = 3
        /\ runs[r].errors = <<[addressIndex |-> 1, address |-> "addr_b"]>>
        /\ Len(runs[r].createdProofs) = 2

\* C3: the step that ends a runSeed writes the run time as the seed's lastRunAt
\* whatever the attempts did; a one_time seed is paused with no next run, a
\* weekly or monthly seed gets the next run computeNextRun gives from the run
\* time, which is later than the run time.
C3_BookkeepingAfterEveryRun ==
    [][\A r \in RunContexts :
        LET s == runs[r].seedId
        IN  (FinishStep(r) /\ s \in DOMAIN seeds) =>
                /\ runs'[r].outcome = "returned"
                /\ s \in DOMAIN seeds'
                /\ seeds'[s].lastRunAt = now
                /\ seeds[s].cadence = "one_time" =>
                      seeds'[s].status = "paused" /\ seeds'[s].nextRunAt = Null
                /\ seeds[s].cadence \in {"weekly", "monthly"} =>
                      /\ seeds'[s].nextRunAt = computeNextRun(seeds[s].cadence, now)
                      /\ seeds'[s].nextRunAt > now
                      /\ seeds'[s].status = seeds[s].status
    ]_vars

\* a one_time seed whose every attempt failed is paused, run at `now`
C3_Witness ==
    \E r \in RunContexts, s \in DOMAIN seeds :
        /\ runs[r].outcome = "returned"
        /\ runs[r].seedId = s
        /\ seeds[s].cadence = "one_time"
        /\ seeds[s].lastRunAt = now
        /\ seeds[s].status = "paused"
        /\ seeds[s].nextRunAt = Null
        /\ lobCalls > 0
        /\ proofs = <<>>

\* C4: for a user without a key runSeed throws the configuration error instead
\* of entering its loop; no run of such a user is ever in the loop, every
\* provider call and every Proof row comes from a run whose user has a key, and
\* the step that turns the user away changes no seed, no proof and makes no
\* provider call.
C4_NoKeyNoRun ==
    [][/\ \A u \in Users, s \in 1..MaxSeeds :
            lobApiKey[u] = "" =>
                runSeedEnter(s, u).pc = "done" /\ runSeedEnter(s, u).outcome = "config_error"
       /\ \A r \in RunContexts :
            /\ runs'[r].pc = "loop" => lobApiKey'[runs'[r].userId] # ""
            /\ (runs'[r] # runs[r] /\ runs'[r].outcome \in {"settings", "config_error", "skipped"})
                  => UNCHANGED <<seeds, proofs, lobCalls>>
       /\ (lobCalls' # lobCalls \/ DOMAIN proofs' \ DOMAIN proofs # {}) =>
            \E r \in RunContexts : AttemptStep(r) /\ lobApiKey[runs[r].userId] # ""
    ]_vars

\* the owner of a seed asked for a run without a key: nothing has happened
C4_Witness ==
    /\ runs["manual"].outcome = "settings"
    /\ runs["manual"].seedId \in DOMAIN seeds
    /\ lobApiKey[seeds[runs["manual"].seedId].userId] = ""
    /\ seeds[runs["manual"].seedId].lastRunAt = Null
    /\ proofs = <<>>
    /\ lobCalls = 0

\* C5: computeNextRun(T) is null for one_time, the day seven days after T for
\* weekly, and for monthly the same day of the following calendar month (the
\* last day of that month when it has no such day).
C5_CadenceLaw ==
    cnResult # <<>> =>
        LET result == cnResult[1]
            from == ToCalendar(cnFrom)
            nextMonth == IF from.month = 12 THEN 1 ELSE from.month + 1
            nextYear == IF from.month = 12 THEN from.year + 1 ELSE from.year
            length == DaysInMonth(nextYear, nextMonth)
        IN  /\ cnCadence = "one_time" => result = Null
            /\ cnCadence = "weekly" => result = cnFrom + 7
            /\ cnCadence = "monthly" =>
                  /\ result > cnFrom
                  /\ ToCalendar(result) =
                        [year |-> nextYear, month |-> nextMonth,
                         day |-> IF from.day <= length THEN from.day ELSE length]

\* computeNextRun has answered for a monthly seed run on a January 31st
C5_Witness ==
    /\ cnResult # <<>>
    /\ cnCadence = "monthly"
    /\ ToCalendar(cnFrom).month = 1
    /\ ToCalendar(cnFrom).day = 31
    /\ ToCalendar(cnResult[1]).month = 2

\* C6: every active weekly or monthly seed has a next run.
C6_ActiveRecurringSeedHasNextRun ==
    \A s \in DOMAIN seeds :
        (seeds[s].cadence \in {"weekly", "monthly"} /\ seeds[s].status = "active")
            => seeds[s].nextRunAt # Null

\* C7: no webhook event changes the status of a completed proof.
C7_WebhookLeavesCompletedAlone ==
    [][\A type \in EventTypes, id \in ResourceIds, tracking \in TrackingNumbers :
        WebhooksStore(type, id, tracking) =>
            \A p \in DOMAIN proofs :
                proofs[p].status = "completed" => proofs'[p].status = "completed"
    ]_vars

\* C8: a '.delivered' event for the resource id of a proof moves that proof,
\* whatever its status, to 'awaiting_review', sets deliveredAt to the time of
\* the request, records the payload's tracking number when there is one, and
\* is answered 200.
C8_DeliveredEvent ==
    [][\A type \in EventTypes, id \in ResourceIds, tracking \in TrackingNumbers :
        (/\ WebhooksStore(type, id, tracking)
         /\ endsWith(type, ".delivered")
         /\ FindByResourceId(id) # {}) =>
            /\ webhookResponse' = 200
            /\ \A p \in FindByResourceId(id) :
                /\ proofs'[p].status = "awaiting_review"
                /\ proofs'[p].deliveredAt = now
                /\ proofs'[p].deliveredAt # Null
                /\ tracking # "" => proofs'[p].trackingNumber = tracking
    ]_vars

\* a reviewed proof is awaiting review again, delivered now, with a tracking number
C8_Witness ==
    \E p \in DOMAIN proofs :
        /\ proofs[p].status = "awaiting_review"
        /\ proofs[p].deliveredAt = now
        /\ proofs[p].trackingNumber # ""
        /\ proofs[p].qualityRating # Null
        /\ webhookResponse = 200

\* C9: a '.mailed' event for the resource id of a proof in status 'created'
\* moves it to 'mailed', and its tracking number becomes the payload's when the
\* payload has one and stays what it was otherwise.
C9_MailedEvent ==
    [][\A type \in EventTypes, id \in ResourceIds, tracking \in TrackingNumbers :
        (/\ WebhooksStore(type, id, tracking)
         /\ endsWith(type, ".mailed")) =>
            \A p \in FindByResourceId(id) :
                proofs[p].status = "created" =>
                    /\ proofs'[p].status = "mailed"
                    /\ proofs'[p].trackingNumber =
                          IF tracking # "" THEN tracking ELSE proofs[p].trackingNumber
                    /\ proofs'[p].deliveredAt = proofs[p].deliveredAt
    ]_vars

\* a proof never delivered is mailed and has a tracking number
C9_Witness ==
    \E p \in DOMAIN proofs :
        /\ proofs[p].status = "mailed"
        /\ proofs[p].trackingNumber # ""
        /\ proofs[p].deliveredAt = Null
        /\ webhookResponse = 200

\* C10: an event without a resource id, or with one that no proof has, changes
\* no proof and is answered 204.
C10_UnmatchedEventIsDiscarded ==
    [][\A type \in EventTypes, id \in ResourceIds, tracking \in TrackingNumbers :
        (/\ WebhooksStore(type, id, tracking)
         /\ (id = Null \/ \A p \in DOMAIN proofs : proofs[p].resourceId # id)) =>
            /\ proofs' = proofs
            /\ webhookResponse' = 204
    ]_vars

\* an event has been discarded after proofs had been moved by earlier events
C10_Witness ==
    /\ webhookResponse = 204
    /\ \E p \in DOMAIN proofs : proofs[p].status = "mailed"

\* C11: every request the webhook handler has answered was answered 200 or 204.
C11_WebhookAnswers200Or204 ==
    webhookResponse # 0 => webhookResponse \in {200, 204}

\* the fields of proof p other than those named stay what they were
SameBut(p, fields) ==
    /\ p \in DOMAIN proofs'
    /\ \A f \in DOMAIN proofs[p] \ fields : proofs'[p][f] = proofs[p][f]

\* C12: submitting a review of a proof the caller owns completes it whatever
\* its status was, stores the rating, the printer vendor and the notes of the
\* form, and changes nothing else; the request is accepted in every status.
C12_SubmitReviewCompletes ==
    [][/\ \A u \in Users, p \in 1..MaxLobCalls, rating \in Ratings,
            printerVendor \in PrinterVendors, notes \in ReviewNotes :
            ProofsUpdate(u, p, rating, printerVendor, notes) =>
                /\ proofs[p].userId = u
                /\ proofs'[p].status = "completed"
                /\ proofs'[p].qualityRating = rating
                /\ proofs'[p].printerVendor = printerVendor
                /\ proofs'[p].notes = notes
                /\ SameBut(p, {"status", "qualityRating", "printerVendor", "notes"})
                /\ \A q \in DOMAIN proofs \ {p} : SameBut(q, {})
       /\ \A p \in DOMAIN proofs :
            ENABLED ProofsUpdate(proofs[p].userId, p, 5, "PrintCo", "smudged corner")
    ]_vars

\* a proof that was never mailed or delivered is completed, with its review;
\* the other is still as the run created it
C12_Witness ==
    \E p, q \in DOMAIN proofs :
        /\ proofs[p].status = "completed"
        /\ proofs[p].qualityRating = 5
        /\ proofs[p].printerVendor = "PrintCo"
        /\ proofs[p].notes = "smudged corner"
        /\ proofs[p].deliveredAt = Null
        /\ proofs[q].status = "created"

\* C15: setting the status of a proof the caller owns gives it the requested
\* status, any of the six, whatever its status was, and changes no other field
\* of any proof; the request is accepted in every status.
C15_SetStatusIsUnguarded ==
    [][/\ \A u \in Users, p \in 1..MaxLobCalls, status \in ProofStatuses :
            ProofsUpdateStatus(u, p, status) =>
                /\ proofs[p].userId = u
                /\ proofs'[p].status = status
                /\ SameBut(p, {"status"})
                /\ \A q \in DOMAIN proofs \ {p} : SameBut(q, {})
       /\ \A p \in DOMAIN proofs, status \in ProofStatuses :
            /\ ENABLED ProofsUpdateStatus(proofs[p].userId, p, status)
            /\ StatusSet(proofs[p], status).status = status
    ]_vars

\* a reviewed proof has been set back to 'created', its review kept
C15_Witness ==
    \E p \in DOMAIN proofs :
        /\ proofs[p].status = "created"
        /\ proofs[p].qualityRating = 5
        /\ proofs[p].notes = "smudged corner"

\* C16: an upload request, whatever becomes of it, leaves the status of every
\* proof as it was and changes no field but the liveProofUrl of the proof it is
\* for.
C16_UploadKeepsStatus ==
    [][\A u \in Users, p \in 1..MaxLobCalls, outcome \in UploadOutcomes, url \in ScanUrls :
        ProofsUploadLiveProof(u, p, outcome, url) =>
            /\ proofs'[p].status = proofs[p].status
            /\ SameBut(p, {"liveProofUrl"})
            /\ outcome # "stored" => proofs'[p].liveProofUrl = proofs[p].liveProofUrl
            /\ \A q \in DOMAIN proofs \ {p} : SameBut(q, {})
    ]_vars

\* a photo is stored for a proof still in status 'mailed'
C16_Witness ==
    \E p \in DOMAIN proofs :
        /\ proofs[p].liveProofUrl # ""
        /\ proofs[p].status = "mailed"

\* C13: when the provider delivers again the event it delivered last, the
\* status, the tracking number and the delivery time of every proof are what
\* they were after the first delivery.
C13_RedeliveryChangesNothing ==
    [][ProviderRetry =>
        \A p \in DOMAIN proofs :
            /\ proofs'[p].status = proofs[p].status
            /\ proofs'[p].trackingNumber = proofs[p].trackingNumber
            /\ proofs'[p].deliveredAt = proofs[p].deliveredAt
    ]_vars

\* C14: a Proof row gets its resourceId when a runSeed attempt inserts it, the
\* id the provider answered that attempt's call with, and no step of any
\* operation changes the resourceId of a row that exists.
C14_ResourceIdIsSetOnce ==
    [][/\ \A p \in DOMAIN proofs \cap DOMAIN proofs' :
            proofs'[p].resourceId = proofs[p].resourceId
       /\ \A p \in DOMAIN proofs' \ DOMAIN proofs :
            /\ \E r \in RunContexts : AttemptStep(r)
            /\ lobCalls' = lobCalls + 1
            /\ proofs'[p].resourceId = lobCalls'
            /\ proofs'[p].resourceId # Null
    ]_vars

\* an orphaned, reviewed proof with a photo and a thumbnail has the id it was
\* created with, after a later event for it
C14_Witness ==
    /\ 1 \in DOMAIN proofs
    /\ proofs[1].resourceId = 1
    /\ proofs[1].seedId = Null
    /\ proofs[1].seedName = "Spring"
    /\ proofs[1].status = "awaiting_review"
    /\ proofs[1].qualityRating = 5
    /\ proofs[1].liveProofUrl # ""
    /\ proofs[1].frontThumbnailUrl # ""

\* the step that starts a tick, and the ids a sequence of due seeds holds
TickQueryStep == tickPc = "idle" /\ tickPc' = "running"
DueIds(due) == {due[k].id : k \in 1..Len(due)}

\* C17: the seeds a tick takes up are exactly the seeds that, when it makes its
\* query, are active and have a next run that is not null and not after now,
\* each of them once; the tick hands to runSeed only seeds of that selection,
\* in the order of its list.
C17_TickSelectsTheDueSeeds ==
    [][/\ TickQueryStep =>
            /\ DueIds(tickDue') =
                  {s \in DOMAIN seeds : /\ seeds[s].status = "active"
                                        /\ seeds[s].nextRunAt # Null
                                        /\ seeds[s].nextRunAt <= now}
            /\ Len(tickDue') = Cardinality(DueIds(tickDue'))
            /\ \A s \in DOMAIN seeds :
                  (\/ seeds[s].status = "paused"
                   \/ seeds[s].nextRunAt = Null
                   \/ seeds[s].nextRunAt > now) => s \notin DueIds(tickDue')
            /\ tickNow' = now
       /\ (tickPc = "running" /\ tickDue' # tickDue) =>
            /\ tickDue # <<>>
            /\ tickDue' = Tail(tickDue)
            /\ runs'["tick"].seedId = Head(tickDue).id
       /\ (runs'["tick"] # runs["tick"] /\ runs'["tick"].pc # "idle" /\ runs["tick"].pc # "loop") =>
            /\ tickPc = "running"
            /\ tickDue # <<>>
            /\ runs'["tick"].seedId = Head(tickDue).id
    ]_vars

\* the tick runs seed 2, the only due one: seed 1 is active with a next run a
\* week away
C17_Witness ==
    /\ runs["tick"].pc = "loop"
    /\ runs["tick"].seedId = 2
    /\ tickDue = <<>>
    /\ 1 \in DOMAIN seeds
    /\ seeds[1].status = "active"
    /\ seeds[1].nextRunAt > now
    /\ seeds[1].lastRunAt = Null

\* C18: when runSeed throws for a due seed, the tick keeps the due seeds that
\* follow it and stays in its loop, having changed nothing; every seed on the
\* list of a running tick gets its turn, and every tick that has started ends.
C18_TickSurvivesAThrowingSeed ==
    /\ [][(TickNextSeed /\ runs'["tick"].outcome \in {"refresh_failed", "config_error"}) =>
            /\ tickDue' = Tail(tickDue)
            /\ tickPc' = "running"
            /\ UNCHANGED <<seeds, proofs, lobCalls>>
       ]_vars
    /\ \A s \in 1..TickSeeds :
          (tickPc = "running" /\ s \in DueIds(tickDue)) ~> (runs["tick"].seedId = s)
    /\ (tickPc = "running") ~> (tickPc = "idle")

\* runSeed has thrown for a seed deleted after the query, and another due seed
\* is still on the list
C18_Witness ==
    /\ tickPc = "running"
    /\ runs["tick"].outcome = "refresh_failed"
    /\ runs["tick"].seedId \notin DOMAIN seeds
    /\ tickDue # <<>>
    /\ Head(tickDue).id \in DOMAIN seeds

\* C19: when the owner of the due seed whose turn it is has no key, the tick
\* does not call runSeed for it: no seed and no proof changes, no provider call
\* is made, and the tick goes on with the rest of its list.
C19_TickSkipsKeylessOwner ==
    [][(TickNextSeed /\ lobApiKey[Head(tickDue).userId] = "") =>
            /\ runs'["tick"].outcome = "skipped"
            /\ runs'["tick"].pc = "done"
            /\ runs'["tick"].seedId = Head(tickDue).id
            /\ UNCHANGED <<seeds, proofs, lobCalls>>
            /\ tickDue' = Tail(tickDue)
            /\ tickPc' = "running"
    ]_vars

\* the seed of a user without a key was skipped, it is as it was, and the tick
\* has another seed to go on with
C19_Witness ==
    /\ runs["tick"].outcome = "skipped"
    /\ runs["tick"].seedId \in DOMAIN seeds
    /\ lobApiKey[seeds[runs["tick"].seedId].userId] = ""
    /\ seeds[runs["tick"].seedId].lastRunAt = Null
    /\ seeds[runs["tick"].seedId].status = "active"
    /\ tickDue # <<>>
    /\ proofs = <<>>

\* C20: resizeImageIfNeeded never makes more than 10 encode attempts; it makes
\* another attempt only while fewer than 10 were made and the last output, if
\* any, is over the ceiling, so it stops at the first output that is not; when
\* it returns the resized path the last output is at or under the ceiling or
\* 10 attempts were made; and once in its loop it does return.
C20_ResizeStopsWithinTenAttempts ==
    /\ [][/\ resize'.attempts <= 10
          /\ (resize.pc = "loop" /\ resize'.attempts # resize.attempts) =>
                /\ resize'.attempts = resize.attempts + 1
                /\ resize.attempts < 10
                /\ resize.attempts > 0 => resize.resizedSize > maxSizeBytes
          /\ (resize.pc = "loop" /\ resize.attempts > 0
                /\ resize.resizedSize <= maxSizeBytes) =>
                resize'.pc = "returned" /\ resize'.attempts = resize.attempts
          /\ (resize'.returned = "resizedPath" /\ resize.returned # "resizedPath") =>
                /\ resize'.attempts >= 1
                /\ resize'.written
                /\ resize'.resizedSize <= maxSizeBytes \/ resize'.attempts = 10
       ]_vars
    /\ (resize.pc = "loop") ~> (resize.pc = "returned")

\* the resized path is returned after ten attempts, the last still over the ceiling
C20_Witness ==
    /\ resize.returned = "resizedPath"
    /\ resize.attempts = 10
    /\ resize.resizedSize > maxSizeBytes

\* C21: a call on a file whose size is at or under the ceiling returns the
\* input path, and has read no metadata, made no encode attempt and written
\* no file.
C21_SmallFileIsReturnedUntouched ==
    (resize.pc # "idle" /\ resize.currentSize <= maxSizeBytes) =>
        /\ resize.pc = "returned"
        /\ resize.returned = "filePath"
        /\ resize.metadataReads = 0
        /\ resize.attempts = 0
        /\ ~resize.written

\* a file of exactly the ceiling's size came back as it was
C21_Witness ==
    /\ resize.pc = "returned"
    /\ resize.currentSize = maxSizeBytes
    /\ resize.returned = "filePath"
    /\ resize.metadataReads = 0

\* C22: resizeImageIfNeeded never raises: a throw of the first stat, of the
\* metadata read, of an encode, of the stat after an encode or of the final
\* stat ends the call with the input path returned, also when a resized file
\* was written before.
C22_AnyErrorReturnsTheInputPath ==
    [][/\ resize'.pc \in {"idle", "metadata", "loop", "returned"}
       /\ ResizeCall(resize'.currentSize, resize'.width, resize'.height, resize'.format, TRUE) =>
             resize'.pc = "returned" /\ resize'.returned = "filePath"
       /\ ResizeMetadata(TRUE) =>
             resize'.pc = "returned" /\ resize'.returned = "filePath"
       /\ \A size \in EncodedSizes, encodeThrew \in BOOLEAN, statThrew \in BOOLEAN :
             (ResizeAttempt(size, encodeThrew, statThrew) /\ (encodeThrew \/ statThrew)) =>
                resize'.pc = "returned" /\ resize'.returned = "filePath"
       /\ ResizeFinish(TRUE) =>
             resize'.pc = "returned" /\ resize'.returned = "filePath"
      ]_vars

\* the input path returned after three attempts, two resized files written
C22_Witness ==
    /\ resize.pc = "returned"
    /\ resize.returned = "filePath"
    /\ resize.attempts = 3
    /\ resize.written

C24_BookkeepingOnceAfterTheLoop ==
    [][/\ \A r \in RunContexts :
             /\ (EnterStep(r) \/ AttemptStep(r)) => seeds' = seeds
             /\ FinishStep(r) =>
                   /\ runs[r].i = Len(runs[r].addresses)
                   /\ Len(runs[r].createdProofs) + Len(runs[r].errors) = Len(runs[r].addresses)
                   /\ DOMAIN seeds' = DOMAIN seeds
                   /\ \A s \in DOMAIN seeds :
                         seeds'[s] = IF s = runs[r].seedId
                                     THEN Bookkeeping(seeds[s], runs[r].cadence, now)
                                     ELSE seeds[s]
       /\ \A s \in DOMAIN seeds \cap DOMAIN seeds' :
             seeds'[s].lastRunAt # seeds[s].lastRunAt =>
                \E r \in RunContexts : FinishStep(r) /\ runs[r].seedId = s
      ]_vars

\* a run over three addresses has ended, its seed written at the end: the
\* second attempt failed, the first and the third left proofs
C24_Witness ==
    \E r \in RunContexts, s \in DOMAIN seeds :
        /\ runs[r].outcome = "returned"
        /\ runs[r].seedId = s
        /\ Len(seeds[s].toAddress) = 3
        /\ seeds[s].lastRunAt = now
        /\ Cardinality({p \in DOMAIN proofs : proofs[p].seedId = s}) = 2
        /\ lobCalls = 3

\* C25: nothing in the seed row stops a run: for a user with a key runSeed
\* enters its loop for every seed that exists, whatever its status, lastRunAt
\* and nextRunAt, also while the other caller's run for the same seed is in
\* its loop or has just ended; and the scheduled command dispatches the seed
\* its query listed without looking at the row again, so a manual run and a
\* scheduled run of one seed can both run to the end.
C25_NothingPreventsTheSecondBatch ==
    /\ \A s \in DOMAIN seeds :
          lobApiKey[seeds[s].userId] # "" =>
             /\ runSeedEnter(s, seeds[s].userId).pc = "loop"
             /\ runSeedEnter(s, seeds[s].userId).addresses = seeds[s].toAddress
    /\ (tickPc = "running" /\ tickDue # <<>>) =>
          LET seed == Head(tickDue)
          IN  (seed.id \in DOMAIN seeds /\ lobApiKey[seed.userId] # "") =>
                 /\ TickDispatch(seed).pc = "loop"
                 /\ TickDispatch(seed).addresses = seeds[seed.id].toAddress
    /\ \A r \in RunContexts :
          (runs[r].pc = "loop" /\ ~LoopIsOver(runs[r]) /\ lobCalls < MaxLobCalls) =>
             ENABLED runSeedAttempt(r)

\* a manual run and a scheduled run of the same one-address seed, both in
\* runSeed at once within one tick, have each inserted their proof: two
\* proofs for one due occurrence
C25_Witness ==
    \E s \in DOMAIN seeds :
        /\ runs["manual"].pc = "loop" /\ runs["manual"].seedId = s
        /\ runs["tick"].pc = "loop" /\ runs["tick"].seedId = s
        /\ tickNow = now
        /\ LoopIsOver(runs["manual"]) /\ LoopIsOver(runs["tick"])
        /\ Cardinality({p \in DOMAIN proofs : proofs[p].seedId = s})
              = 2 * Len(seeds[s].toAddress)

\* the six statuses in the order the status validator lists them
StatusOrder ==
    <<"created", "in_production", "mailed", "delivered", "awaiting_review", "completed">>

StatusRank(status) == CHOOSE i \in 1..Len(StatusOrder) : StatusOrder[i] = status

\* C26: whatever events the provider sends and in whatever order, a webhook
\* never moves a proof to a status earlier in the order created, in_production,
\* mailed, delivered, awaiting_review, completed than the one it has.
C26_WebhookNeverMovesAProofBack ==
    [][\A type \in EventTypes, id \in ResourceIds, tracking \in TrackingNumbers :
          WebhooksStoreBody(type, id, tracking) =>
             \A p \in DOMAIN proofs :
                /\ p \in DOMAIN proofs'
                /\ StatusRank(proofs'[p].status) >= StatusRank(proofs[p].status)
      ]_vars

\* C27: the target dimensions of every encode attempt, for every original
\* width and height, are both at least 800 px and in the original's aspect
\* ratio up to the rounding of each dimension to a whole pixel.
C27_TargetsKeepFloorAndAspect ==
    (resize.pc = "loop" /\ LoopContinues(resize)) =>
        LET skew == resize.resizedWidth * resize.height - resize.resizedHeight * resize.width
        IN  /\ resize.resizedWidth >= minDimension
            /\ resize.resizedHeight >= minDimension
            /\ 2 * skew <= resize.width + resize.height
            /\ 2 * skew >= 0 - (resize.width + resize.height)

\* some request of user u on proof p, and on seed s
ProofRequest(u, p) ==
    \/ ProofsUpdate(u, p, 5, "PrintCo", "")
    \/ ProofsUpdateStatus(u, p, "delivered")
    \/ \E url \in ScanUrls : ProofsUploadLiveProof(u, p, "stored", url)
    \/ ProofsDestroy(u, p)

SeedRequest(u, s) ==
    \/ \E status \in SeedStatuses :
          SeedsUpdate(u, s, "Summer", "monthly", status,
                      [text |-> "empty", date |-> ToCalendar(now)], <<"addr_a">>)
    \/ \E deleteProofs \in BOOLEAN : SeedsDestroy(u, s, deleteProofs)

\* C28: a review, set status, upload or deletion takes effect only on a proof
\* of the acting user and leaves every other proof and every seed as it was;
\* an edit or deletion of a seed takes effect only on a seed of the acting
\* user and changes no proof of another user; a run enters runSeed only for a
\* seed of the acting user and otherwise changes no row; and no request of a
\* user on another user's proof or seed can change any row.
C28_RequestsActOnOwnRowsOnly ==
    /\ [][\A u \in Users :
            /\ \A p \in 1..MaxLobCalls :
                  ProofRequest(u, p) =>
                     /\ proofs[p].userId = u
                     /\ seeds' = seeds
                     /\ \A q \in DOMAIN proofs \ {p} :
                           q \in DOMAIN proofs' /\ proofs'[q] = proofs[q]
            /\ \A s \in 1..MaxSeeds :
                  /\ SeedRequest(u, s) =>
                        /\ seeds[s].userId = u
                        /\ \A q \in DOMAIN proofs :
                              proofs[q].userId # u =>
                                 q \in DOMAIN proofs' /\ proofs'[q] = proofs[q]
                  /\ SeedsRun(u, s) =>
                        /\ seeds' = seeds /\ proofs' = proofs
                        /\ runs'["manual"].pc = "loop" =>
                              seeds[s].userId = u /\ runs'["manual"].userId = u
         ]_vars
    /\ [](\A u \in Users :
            /\ \A p \in DOMAIN proofs :
                  proofs[p].userId # u => ~ENABLED ProofRequest(u, p)
            /\ \A s \in DOMAIN seeds :
                  seeds[s].userId # u => ~ENABLED SeedRequest(u, s))

\* u2, who holds a key, has asked to run u1's seed and was answered not found,
\* while u1's seed, edited by u1, and u1's reviewed proof are there
C28_Witness ==
    /\ lobApiKey["u2"] # ""
    /\ runs["manual"].outcome = "not_found"
    /\ \E s \in DOMAIN seeds :
          /\ seeds[s].userId = "u1"
          /\ seeds[s].name = "Summer"
          /\ runs["manual"].seedId = s
    /\ \E p \in DOMAIN proofs : proofs[p].userId = "u1" /\ proofs[p].status = "completed"

\* C29: the list of a tick holds each due seed once and a dispatch takes its
\* seed off the list; when the tick's run of a weekly or monthly seed ends,
\* the seed's nextRunAt is later than the tick's now and than the time of the
\* run, and a one_time seed is left paused with no nextRunAt; so as long as
\* the owner edits nothing, no tick selects a seed that was run at that same
\* time, nor a one_time seed that was ever run.
C29_TickRunsASeedOncePerOccurrence ==
    [][/\ TickQueryStep =>
            /\ Len(tickDue') = Cardinality(DueIds(tickDue'))
            /\ \A s \in DueIds(tickDue') :
                  /\ seeds[s].lastRunAt # now
                  /\ seeds[s].cadence = "one_time" => seeds[s].lastRunAt = Null
       /\ TickNextSeed =>
            /\ runs'["tick"].seedId = Head(tickDue).id
            /\ Head(tickDue).id \notin DueIds(tickDue')
       /\ LET s == runs["tick"].seedId
          IN  (FinishStep("tick") /\ s \in DOMAIN seeds) =>
                 /\ seeds'[s].lastRunAt = now
                 /\ seeds[s].cadence \in {"weekly", "monthly"} =>
                       /\ seeds'[s].nextRunAt # Null
                       /\ seeds'[s].nextRunAt > tickNow
                       /\ seeds'[s].nextRunAt > now
                 /\ seeds[s].cadence = "one_time" =>
                       /\ seeds'[s].status = "paused"
                       /\ seeds'[s].nextRunAt = Null
      ]_vars

\* a week after both seeds were run, a tick runs the weekly seed again and
\* has not listed the one_time seed, which is paused
C29_Witness ==
    /\ now = ClockStart + 7
    /\ tickPc = "running"
    /\ tickNow = now
    /\ tickDue = <<>>
    /\ runs["tick"].pc = "loop" /\ runs["tick"].seedId = 1
    /\ DOMAIN seeds = {1, 2}
    /\ seeds[1].cadence = "weekly" /\ seeds[1].lastRunAt = ClockStart
    /\ seeds[2].cadence = "one_time" /\ seeds[2].lastRunAt = ClockStart
    /\ seeds[2].status = "paused" /\ seeds[2].nextRunAt = Null
    /\ runs["manual"] = NoRun

\* C30: an event whose type ends in neither '.mailed' nor '.delivered' leaves
\* every proof as it was, the one it matches included; and the only statuses
\* an event ever gives a proof are 'mailed' and 'awaiting_review', never
\* 'in_production', 'delivered' or 'completed'.
C30_OtherEventsChangeNothing ==
    [][\A type \in EventTypes, id \in ResourceIds, tracking \in TrackingNumbers :
          WebhooksStoreBody(type, id, tracking) =>
             /\ (~endsWith(type, ".mailed") /\ ~endsWith(type, ".delivered")) =>
                   proofs' = proofs
             /\ \A p \in DOMAIN proofs :
                   /\ p \in DOMAIN proofs'
                   /\ proofs'[p].status # proofs[p].status =>
                         proofs'[p].status \in {"mailed", "awaiting_review"}
                   /\ proofs'[p].status \in {"in_production", "delivered", "completed"} =>
                         proofs'[p].status = proofs[p].status
      ]_vars

\* the event 'postcard.created' for proof 1, which an earlier event had made
\* 'mailed' with a tracking number, was answered 200 and left it so
C30_Witness ==
    /\ webhookEvent.type = "postcard.created"
    /\ webhookEvent.id = 1
    /\ webhookResponse = 200
    /\ 1 \in DOMAIN proofs
    /\ proofs[1].status = "mailed"
    /\ proofs[1].trackingNumber # ""
    /\ proofs[1].deliveredAt = Null

====
